---- MODULE Spec2Model ----
(***************************************************************************)
(* Model of src/main.rs: a holder (MyStruct) owning a reference to a       *)
(* three-byte buffer and a Vec of boxed callbacks, set_callback (push)     *)
(* and do_something (call every callback, then process_data), the program  *)
(* entry point main and the unit test test_set_callback.                   *)
(*                                                                         *)
(* Everything the program does that can be observed is recorded in         *)
(* `trace`, a sequence of events:                                          *)
(*   invoke        (cb.callback)(&cb_data) was entered with view cb_data   *)
(*   process_data  process_data(cb_data.data) was entered                  *)
(*   stdout        one println! line, attributed to who printed it         *)
(***************************************************************************)
EXTENDS Integers, Sequences, FiniteSets, TLC

VARIABLES
    callbacks,   \* MyStruct.callbacks : Vec<MyCallback<T>>, as closure names
    data,        \* MyStruct.data : &[u8; 3], the bytes referred to
    trace,       \* events of every do_something call so far, in order
    op,          \* the operation that produced the current state
    arg,         \* the closure passed to that operation, "" when it takes none
    pc           \* position of the running entry point

vars == <<callbacks, data, trace, op, arg, pc>>

----------------------------------------------------------------------------
(* Bounds of the exploration *)

MaxCallbacks == 3     \* an API client registers at most this many closures
MaxTrace == 8         \* a client stops dispatching once the trace is longer

(* The buffers a client constructs a holder with; the type is [u8; 3] *)
Buffers == { <<1, 2, 3>>, <<0, 255, 7>>, <<9, 9, 9>> }

(* The closures of the source, by the place they are written *)
MainPrint == "main_print"     \* main.rs:164-168
TestNoop  == "test_noop"      \* main.rs:196
DocPrint  == "doc_print"      \* main.rs:106
Callbacks == { MainPrint, TestNoop, DocPrint }

ProcessData == "process_data"

----------------------------------------------------------------------------
(* Formatting: {:?} of a byte slice and of MyCallbackData (derive(Debug)) *)

RECURSIVE DebugItems(_, _)
DebugItems(s, i) ==
    IF i > Len(s) THEN ""
    ELSE (IF i > 1 THEN ", " ELSE "") \o ToString(s[i]) \o DebugItems(s, i + 1)

DebugSlice(s) == "[" \o DebugItems(s, 1) \o "]"

DebugMyCallbackData(v) == "MyCallbackData { data: " \o DebugSlice(v.data) \o " }"

----------------------------------------------------------------------------
(* Events *)

InvokeEvent(cb, v) == [kind |-> "invoke", who |-> cb, view |-> v, line |-> ""]
ProcessEvent(d) ==
    [kind |-> "process_data", who |-> ProcessData, view |-> [data |-> d], line |-> ""]
StdoutEvent(w, v, text) == [kind |-> "stdout", who |-> w, view |-> v, line |-> text]

(* Variant: the view is built over a slice that is one byte short *)
MyCallbackData_short(d) == [data |-> SubSeq(d, 1, Len(d) - 1)]

(* MyCallbackData { data: self.data } *)
MyCallbackData(d) == [data |-> d]

(* What the body of each closure does with the view it is given *)
CallbackBody(cb, v) ==
    CASE cb = MainPrint ->
           << StdoutEvent(cb, v, "Callback called with data " \o DebugMyCallbackData(v)) >>
      [] cb = DocPrint ->
           << StdoutEvent(cb, v, "Data: " \o DebugMyCallbackData(v)) >>
      [] cb = TestNoop -> << >>

(* (cb.callback)(&cb_data) *)
Invoke(cb, v) == << InvokeEvent(cb, v) >> \o CallbackBody(cb, v)

(* Variant: process_data as a step that prints nothing *)
process_data_silent(d) == << ProcessEvent(d) >>

(* fn process_data(data: &[u8]) *)
process_data(d) ==
    << ProcessEvent(d),
       StdoutEvent(ProcessData, [data |-> d], "Processing data: " \o DebugSlice(d)) >>

(* Variant: the loop body processes the data before it calls the closure *)
LoopBody_processFirst(cb, d) ==
    LET cb_data == [data |-> d]
    IN  process_data(cb_data.data) \o Invoke(cb, cb_data)

(* One iteration of the for loop of do_something *)
LoopBody(cb, d) ==
    LET cb_data == MyCallbackData(d)
    IN  Invoke(cb, cb_data) \o process_data(cb_data.data)

(* Variant: the registry is walked from its last entry to its first *)
RECURSIVE ForEach_reversed(_, _, _)
ForEach_reversed(cbs, d, i) ==
    IF i > Len(cbs) THEN << >>
    ELSE ForEach_reversed(cbs, d, i + 1) \o LoopBody(cbs[i], d)

(* Variant: process_data is also called once after the loop *)
RECURSIVE ForEach_trailing(_, _, _)
ForEach_trailing(cbs, d, i) ==
    IF i > Len(cbs) THEN process_data(d)
    ELSE LoopBody(cbs[i], d) \o ForEach_trailing(cbs, d, i + 1)

(* for cb in &self.callbacks { ... }, from index i on *)
RECURSIVE ForEach(_, _, _)
ForEach(cbs, d, i) ==
    IF i > Len(cbs) THEN << >>
    ELSE LoopBody(cbs[i], d) \o ForEach(cbs, d, i + 1)

----------------------------------------------------------------------------
(* The two methods of MyTrait for MyStruct *)

(* Variant: set_callback as a setter, the new closure replaces the registry *)
set_callback_replace(cb) ==
    /\ callbacks' = << cb >>
    /\ op' = "set_callback"
    /\ arg' = cb
    /\ UNCHANGED <<data, trace>>

(* Variant: a closure that is already registered is not pushed again *)
set_callback_dedup(cb) ==
    /\ callbacks' = IF \E i \in 1..Len(callbacks) : callbacks[i] = cb
                    THEN callbacks ELSE Append(callbacks, cb)
    /\ op' = "set_callback"
    /\ arg' = cb
    /\ UNCHANGED <<data, trace>>

set_callback(cb) ==
    /\ callbacks' = Append(callbacks, cb)
    /\ op' = "set_callback"
    /\ arg' = cb
    /\ UNCHANGED <<data, trace>>

(* Variant: the registry is drained by the dispatch *)
do_something_drain ==
    /\ trace' = trace \o ForEach(callbacks, data, 1)
    /\ callbacks' = << >>
    /\ op' = "do_something"
    /\ arg' = ""
    /\ UNCHANGED data

(* Variant: the dispatch clears the buffer once it has been processed *)
do_something_consume ==
    /\ trace' = trace \o ForEach(callbacks, data, 1)
    /\ data' = IF callbacks = << >> THEN data ELSE [i \in 1..Len(data) |-> 0]
    /\ op' = "do_something"
    /\ arg' = ""
    /\ UNCHANGED callbacks

do_something ==
    /\ trace' = trace \o ForEach(callbacks, data, 1)
    /\ op' = "do_something"
    /\ arg' = ""
    /\ UNCHANGED <<callbacks, data>>

----------------------------------------------------------------------------
(* Entry points *)

(* MyStruct { callbacks: Vec::new(), data: d } *)
New(d) ==
    /\ callbacks = << >>
    /\ data = d
    /\ trace = << >>
    /\ op = "new"
    /\ arg = ""

Init ==
    \/ New(<<1, 2, 3>>) /\ pc = "main_set"
    \/ New(<<1, 2, 3>>) /\ pc = "test_set"
    \/ \E d \in Buffers : New(d) /\ pc = "client"

(* fn main *)
MainSetCallback ==
    /\ pc = "main_set"
    /\ set_callback(MainPrint)
    /\ pc' = "main_do"

(* Variant: main dispatches twice *)
MainDoSomething_twice ==
    /\ pc = "main_do"
    /\ trace' = trace \o ForEach(callbacks, data, 1) \o ForEach(callbacks, data, 1)
    /\ op' = "do_something"
    /\ arg' = ""
    /\ UNCHANGED <<callbacks, data>>
    /\ pc' = "main_done"

MainDoSomething ==
    /\ pc = "main_do"
    /\ do_something
    /\ pc' = "main_done"

(* tests::test_set_callback, up to its assert_eq! *)
TestSetCallback ==
    /\ pc = "test_set"
    /\ set_callback(TestNoop)
    /\ pc' = "test_assert"

(* Any other user of the two methods *)
ClientSetCallback ==
    /\ pc = "client"
    /\ Len(callbacks) < MaxCallbacks
    /\ \E cb \in Callbacks : set_callback(cb)
    /\ UNCHANGED pc

ClientDoSomething ==
    /\ pc = "client"
    /\ Len(trace) < MaxTrace
    /\ do_something
    /\ UNCHANGED pc

Next ==
    \/ MainSetCallback
    \/ MainDoSomething
    \/ TestSetCallback
    \/ ClientSetCallback
    \/ ClientDoSomething

Spec == Init /\ [][Next]_vars

----------------------------------------------------------------------------
(* Helpers of the properties *)

TypeOK ==
    /\ callbacks \in Seq(Callbacks)
    /\ Len(data) = 3
    /\ \A i \in 1..3 : data[i] \in 0..255
    /\ op \in {"new", "set_callback", "do_something"}
    /\ arg \in Callbacks \cup {""}
    /\ (op = "set_callback") <=> (arg # "")

RECURSIVE Filter(_, _)
Filter(s, k) ==
    IF s = << >> THEN << >>
    ELSE (IF Head(s).kind = k THEN << Head(s) >> ELSE << >>) \o Filter(Tail(s), k)

(* The events appended by the step from the current state to the next *)
Emitted == SubSeq(trace', Len(trace) + 1, Len(trace'))

(* The closures invoked by a sequence of events, in order *)
Invoked(ev) == [i \in 1..Len(Filter(ev, "invoke")) |-> Filter(ev, "invoke")[i].who]

LastN(s, n) == SubSeq(s, Len(s) - n + 1, Len(s))

Occurrences(s, x) == Cardinality({i \in 1..Len(s) : s[i] = x})

(* The invoke and process_data events of a sequence of events, in order *)
RECURSIVE Steps(_)
Steps(ev) ==
    IF ev = << >> THEN << >>
    ELSE (IF Head(ev).kind \in {"invoke", "process_data"} THEN << Head(ev) >> ELSE << >>)
         \o Steps(Tail(ev))

Dispatching == op' = "do_something"
Registering == op' = "set_callback"

----------------------------------------------------------------------------
(* C1: every do_something call invokes the closures that are in the        *)
(* registry when it is called, each exactly once and in registration       *)
(* order, and no other closure.                                            *)
C1_DispatchInvokesRegistryInOrder ==
    [][Dispatching => Invoked(Emitted) = callbacks]_vars

C1_Witness ==
    /\ op = "do_something"
    /\ Len(callbacks) >= 2
    /\ callbacks[1] # callbacks[2]
    /\ Invoked(trace) = callbacks

(* C2: every set_callback call makes the registry exactly one entry        *)
(* longer, no step makes it shorter, and test_set_callback's assert_eq!    *)
(* sees length 1.                                                          *)
C2_RegistryGrowsByOne ==
    [][/\ Registering => Len(callbacks') = Len(callbacks) + 1
       /\ Len(callbacks') >= Len(callbacks)
       /\ pc' = "test_assert" => Len(callbacks') = 1]_vars

C2_Witness ==
    /\ op = "set_callback"
    /\ Len(callbacks) >= 2
    /\ trace # << >>

(* C3: the view handed to every closure invoked by one do_something call   *)
(* equals the holder's buffer at that call, so all of them see the same    *)
(* bytes.                                                                  *)
C3_ViewEqualsBuffer ==
    [][Dispatching =>
         \A i \in 1..Len(Emitted) :
            Emitted[i].kind = "invoke" => Emitted[i].view.data = data]_vars

C3_Witness ==
    /\ op = "do_something"
    /\ Len(Filter(trace, "invoke")) >= 2
    /\ data = <<0, 255, 7>>
    /\ \A i \in 1..Len(trace) : trace[i].kind = "invoke" => trace[i].view.data = <<0, 255, 7>>

(* C4: do_something leaves the registry as it was, and a do_something      *)
(* call that directly follows another invokes the same closures in the     *)
(* same order as that one did.                                             *)
C4_DispatchKeepsRegistry ==
    [][Dispatching =>
         /\ callbacks' = callbacks
         /\ op = "do_something" =>
               Invoked(Emitted) = Invoked(LastN(trace, Len(Emitted)))]_vars

C4_Witness ==
    /\ op = "do_something"
    /\ Len(callbacks) >= 2
    /\ callbacks[1] # callbacks[2]
    /\ Invoked(trace) = callbacks \o callbacks

(* C5: no operation changes the buffer: its bytes and its length stay      *)
(* those given at construction.                                            *)
C5_BufferReadOnly ==
    [][data' = data /\ Len(data') = 3]_vars

C5_Witness ==
    /\ op = "do_something"
    /\ data = <<0, 255, 7>>
    /\ Len(callbacks) >= 1
    /\ Len(Filter(trace, "process_data")) >= 2

(* C6 as stated: process_data prints nothing, every line on the console    *)
(* comes from a registered closure.                                        *)
C6_ProcessDataIsNoOp ==
    \A i \in 1..Len(trace) : trace[i].kind = "stdout" => trace[i].who \in Callbacks

(* C6: the console lines of a do_something call are those of the closures  *)
(* it invokes plus, for each invoked closure, one line                     *)
(* "Processing data: <bytes>" printed by process_data.                     *)
C6_ProcessDataPrintsOncePerCallback ==
    [][Dispatching =>
         LET out == Filter(Emitted, "stdout")
             own == {i \in 1..Len(out) : out[i].who = ProcessData}
         IN  /\ \A i \in 1..Len(out) :
                   \/ out[i].who \in Callbacks
                        /\ \E j \in 1..Len(callbacks) : callbacks[j] = out[i].who
                   \/ out[i].who = ProcessData
                        /\ out[i].line = "Processing data: " \o DebugSlice(data)
             /\ Cardinality(own) = Len(callbacks)]_vars

C6_Witness ==
    /\ op = "do_something"
    /\ \E i \in 1..Len(trace) : trace[i].kind = "stdout" /\ trace[i].who = ProcessData
    /\ \E i \in 1..Len(trace) : trace[i].kind = "stdout" /\ trace[i].who = MainPrint
    /\ \E i \in 1..Len(callbacks) : callbacks[i] = TestNoop

(* C7: with buffer [1,2,3] and an empty registry, do_something invokes     *)
(* nothing and prints nothing.                                             *)
C7_EmptyRegistryNoOutput ==
    [][Dispatching /\ callbacks = << >> /\ data = <<1, 2, 3>> => Emitted = << >>]_vars

C7_Witness ==
    /\ op = "do_something"
    /\ callbacks = << >>
    /\ data = <<1, 2, 3>>
    /\ trace = << >>

(* C8: set_callback puts its argument at the end of the registry and       *)
(* keeps every earlier entry at its position, also when the argument is    *)
(* registered already; a do_something call invokes a closure as many       *)
(* times as it is registered.                                              *)
C8_AppendKeepsEntries ==
    [][/\ Registering => callbacks' = callbacks \o << arg' >>
       /\ Dispatching =>
             \A cb \in Callbacks :
                Occurrences(Invoked(Emitted), cb) = Occurrences(callbacks, cb)]_vars

C8_Witness ==
    /\ op = "do_something"
    /\ \E cb \in Callbacks :
          /\ Occurrences(callbacks, cb) >= 2
          /\ Occurrences(Invoked(trace), cb) = Occurrences(callbacks, cb)

(* C9: when main is done, the holder has buffer [1,2,3] and one closure,   *)
(* that closure was invoked once with view [1,2,3], the console shows the  *)
(* same two lines on every run, and nothing more happens.                  *)
C9_MainOutcome ==
    pc = "main_done" =>
       /\ data = <<1, 2, 3>>
       /\ callbacks = << MainPrint >>
       /\ Filter(trace, "invoke") = << InvokeEvent(MainPrint, [data |-> <<1, 2, 3>>]) >>
       /\ [i \in 1..Len(Filter(trace, "stdout")) |-> Filter(trace, "stdout")[i].line]
             = << "Callback called with data MyCallbackData { data: [1, 2, 3] }",
                  "Processing data: [1, 2, 3]" >>
       /\ ~ ENABLED Next

C9_Witness ==
    /\ pc = "main_done"
    /\ op = "do_something"
    /\ Len(trace) = 4

(* C10: in one do_something call over N closures, the i-th invocation is   *)
(* followed by one process_data step on the same buffer before the next    *)
(* invocation: 2N steps, alternating, and nothing between a closure's own  *)
(* output and its process_data step.                                       *)
C10_InvokeThenProcess ==
    [][Dispatching =>
         LET st == Steps(Emitted)
         IN  /\ Len(st) = 2 * Len(callbacks)
             /\ \A i \in 1..Len(callbacks) :
                   /\ st[2 * i - 1] = InvokeEvent(callbacks[i], [data |-> data])
                   /\ st[2 * i] = ProcessEvent(data)
             /\ \A j \in 1..Len(Emitted) :
                   /\ Emitted[j].kind = "process_data" =>
                         /\ j < Len(Emitted)
                         /\ Emitted[j + 1].kind = "stdout"
                         /\ Emitted[j + 1].who = ProcessData
                   /\ (Emitted[j].kind = "stdout" /\ Emitted[j].who \in Callbacks) =>
                         /\ j > 1 /\ j < Len(Emitted)
                         /\ Emitted[j - 1] = InvokeEvent(Emitted[j].who, [data |-> data])
                         /\ Emitted[j + 1].kind = "process_data"]_vars

C10_Witness ==
    /\ op = "do_something"
    /\ Len(callbacks) = 3
    /\ Len(Steps(trace)) = 6
    /\ Steps(trace)[2].kind = "process_data"
    /\ Steps(trace)[3].kind = "invoke"

====
